---- MODULE Spec2Model ----
(***************************************************************************)
(* SwiftInvoice: the in-memory invoice record (js/state.js), the           *)
(* calculator (js/calculations.js), the localStorage persistence layer     *)
(* (js/storage.js) and the event handlers that drive them (js/ui.js,       *)
(* js/main.js).                                                            *)
(*                                                                         *)
(* Values.  A JavaScript number is an integer here; the value sets below   *)
(* are chosen so that every division by 100 in calculateTax is exact.      *)
(* NaN, which parseFloat returns for non-numeric text, is the record       *)
(* NaN; the results of parseFloat are [nan, num] records.  A string is a   *)
(* TLA+ string, except the two strings the code takes apart: an invoice    *)
(* number is [prefix, digits] and a date is <<year, month, day>>, with     *)
(* <<>> for the empty string.                                              *)
(***************************************************************************)
EXTENDS Integers, Sequences, FiniteSets, TLC

VARIABLES
  state,      \* the in-memory invoice record, js/state.js `state`
  storage,    \* localStorage's value under STORAGE_KEY
  pending,    \* file reads started by importInvoices whose onload has not fired
  pc,         \* "boot" until DOMContentLoaded has run, then "ready"
  last,       \* the last completed operation: its name, arguments and result
  everSaved,  \* history: the invoice numbers the save action has written
  fresh       \* history: the in-memory invoice was set up by a new-invoice handler
              \* and has been neither saved nor replaced by a loaded one since

vars == <<state, storage, pending, pc, last, everSaved, fresh>>

(***************************************************************************)
(* Bounds of the model.                                                    *)
(***************************************************************************)
MaxItems == 3        \* items in the in-memory invoice
MaxItemId == 3       \* addItem is not explored beyond this counter value
MaxStored == 2       \* invoices in the stored collection
MaxPending == 1      \* file reads in flight

(***************************************************************************)
(* Numbers and parseFloat.                                                 *)
(***************************************************************************)
NaN == [nan |-> TRUE, num |-> 0]

Num(n) == [nan |-> FALSE, num |-> n]

\* The texts a caller or an input field supplies where a number is expected.
NumericTexts ==
  ("0" :> 0) @@ ("1" :> 1) @@ ("2" :> 2) @@ ("3" :> 3) @@ ("-1" :> -1) @@
  ("-2" :> -2) @@ ("4" :> 4) @@ ("50" :> 50) @@ ("100" :> 100) @@
  ("-50" :> -50) @@ ("1000" :> 1000)

\* parseFloat of a text: its number, or NaN for text that starts with none.
ParseFloat(text) ==
  IF text \in DOMAIN NumericTexts THEN Num(NumericTexts[text]) ELSE NaN

\* parseFloat of a value that is a number already.
ParseFloatNum(n) == Num(n)

\* `p || dflt` for a parseFloat result p: NaN and 0 are falsy.
OrElse(p, dflt) == IF p.nan \/ p.num = 0 THEN dflt ELSE p.num

\* parseFloat(obj.field), where field may be absent from obj (undefined).
ParseField(obj, field) ==
  IF field \in DOMAIN obj THEN ParseFloat(obj[field]) ELSE NaN

Max(a, b) == IF a >= b THEN a ELSE b

(***************************************************************************)
(* The calculator, js/calculations.js.                                     *)
(***************************************************************************)
calculateItemTotal(quantity, price) ==
  LET qty == OrElse(ParseFloatNum(quantity), 0)
      prc == OrElse(ParseFloatNum(price), 0)
  IN  qty * prc

RECURSIVE calculateSubtotal(_)
calculateSubtotal(items) ==
  IF Len(items) = 0 THEN 0
  ELSE LET n == Len(items)
           t == items[n].total
       IN  calculateSubtotal(SubSeq(items, 1, n - 1)) + (IF t = 0 THEN 0 ELSE t)

calculateTax(subtotal, taxRate) ==
  LET sub  == OrElse(ParseFloatNum(subtotal), 0)
      rate == OrElse(ParseFloatNum(taxRate), 0)
  IN  (sub * rate) \div 100

\* calculateTotal returning the difference without the Math.max(0, total).
calculateTotalUnclamped(subtotal, taxRate, discount) ==
  LET sub  == OrElse(ParseFloatNum(subtotal), 0)
      tax  == calculateTax(sub, taxRate)
      disc == OrElse(ParseFloatNum(discount), 0)
  IN  [subtotal |-> sub, tax |-> tax, discount |-> disc, total |-> sub + tax - disc]

calculateTotal(subtotal, taxRate, discount) ==
  LET sub   == OrElse(ParseFloatNum(subtotal), 0)
      tax   == calculateTax(sub, taxRate)
      disc  == OrElse(ParseFloatNum(discount), 0)
      total == sub + tax - disc
  IN  [subtotal |-> sub, tax |-> tax, discount |-> disc, total |-> Max(0, total)]

\* recalculateAll's write to the items: every item's total recomputed.
RecalculatedItems(items) ==
  [i \in 1..Len(items) |->
     [items[i] EXCEPT !.total = calculateItemTotal(items[i].quantity, items[i].price)]]

\* recalculateAll's result, computed from the recomputed items.
recalculateAll(s) ==
  calculateTotal(calculateSubtotal(RecalculatedItems(s.items)), s.taxRate, s.discount)

(***************************************************************************)
(* Invoice numbers and dates.                                              *)
(***************************************************************************)
InvNumber(digits) == [prefix |-> "INV-", digits |-> digits]

\* /INV-(\d+)/ matches: the text holds "INV-" followed by at least one digit.
MatchesINV(number) == number.prefix = "INV-" /\ Len(number.digits) > 0

\* parseInt of a run of decimal digits.
RECURSIVE parseInt(_)
parseInt(digits) ==
  IF Len(digits) = 0 THEN 0
  ELSE 10 * parseInt(SubSeq(digits, 1, Len(digits) - 1)) + digits[Len(digits)]

\* String(n) for n >= 0: its decimal digits.
RECURSIVE ToDigits(_)
ToDigits(n) == IF n < 10 THEN <<n>> ELSE ToDigits(n \div 10) \o <<n % 10>>

\* digits.padStart(width, '0')
RECURSIVE padStart(_, _)
padStart(digits, width) ==
  IF Len(digits) >= width THEN digits ELSE padStart(<<0>> \o digits, width)

\* The last number instead of the greatest.
MathMaxLast(numbers) == numbers[Len(numbers)]

\* Math.max(...numbers) of a non-empty sequence.
RECURSIVE MathMax(_)
MathMax(numbers) ==
  IF Len(numbers) = 1 THEN numbers[1]
  ELSE Max(numbers[1], MathMax(Tail(numbers)))

DaysInMonth(y, m) ==
  IF m = 2 THEN (IF y % 4 = 0 /\ (y % 100 # 0 \/ y % 400 = 0) THEN 29 ELSE 28)
  ELSE IF m \in {4, 6, 9, 11} THEN 30 ELSE 31

\* date.setDate(date.getDate() + days), for days below a month's length.
AddDays(date, days) ==
  LET y == date[1]
      m == date[2]
      d == date[3] + days
      len == DaysInMonth(y, m)
  IN  IF d <= len THEN <<y, m, d>>
      ELSE IF m = 12 THEN <<y + 1, 1, d - len>>
      ELSE <<y, m + 1, d - len>>

DueDays == 14

(***************************************************************************)
(* The persistence layer, js/storage.js.  The stored text is kept as the   *)
(* value it encodes: absent (no key), an array of invoice records, or      *)
(* text that JSON.parse rejects.                                           *)
(***************************************************************************)
Absent == [kind |-> "absent"]

Corrupt == [kind |-> "corrupt"]

\* JSON.stringify of an array of invoices, as localStorage then holds it.
Stringify(invoices) == [kind |-> "array", v |-> invoices]

Null == [isNull |-> TRUE]

\* A collection held as live objects instead of text: the entry that carries
\* the in-memory invoice's number is the in-memory record itself.
getAllInvoicesLive(stored) ==
  IF stored.kind = "array"
  THEN [i \in 1..Len(stored.v) |->
          IF stored.v[i].invoiceNumber = state.invoiceNumber
          THEN ("savedAt" :> stored.v[i].savedAt) @@ state ELSE stored.v[i]]
  ELSE <<>>

\* JSON.parse of the stored text; [] when the key is absent or the text does
\* not parse.
getAllInvoices(stored) == IF stored.kind = "array" THEN stored.v ELSE <<>>

\* invoices.findIndex(inv => inv.invoiceNumber === number): 0 for -1.
findIndex(invoices, number) ==
  LET hits == {i \in 1..Len(invoices) : invoices[i].invoiceNumber = number}
  IN  IF hits = {} THEN 0 ELSE CHOOSE i \in hits : \A j \in hits : i <= j

\* The filter with its test inverted: inv.invoiceNumber === number.
RECURSIVE filterOutInverted(_, _)
filterOutInverted(invoices, number) ==
  IF Len(invoices) = 0 THEN <<>>
  ELSE IF invoices[1].invoiceNumber # number
       THEN filterOutInverted(Tail(invoices), number)
  ELSE <<invoices[1]>> \o filterOutInverted(Tail(invoices), number)

\* invoices.filter(inv => inv.invoiceNumber !== number)
RECURSIVE filterOut(_, _)
filterOut(invoices, number) ==
  IF Len(invoices) = 0 THEN <<>>
  ELSE IF invoices[1].invoiceNumber = number THEN filterOut(Tail(invoices), number)
  ELSE <<invoices[1]>> \o filterOut(Tail(invoices), number)

\* saveInvoice pushing without the search for an entry of the same number.
saveInvoiceAlwaysPush(stored, invoiceData, savedAt, quota) ==
  IF quota THEN [storage |-> stored, ok |-> FALSE]
  ELSE [storage |-> Stringify(Append(getAllInvoices(stored),
                                     ("savedAt" :> savedAt) @@ invoiceData)),
        ok |-> TRUE]

\* saveInvoice dropping the entry of the same number and pushing the new one.
saveInvoiceMoveToEnd(stored, invoiceData, savedAt, quota) ==
  IF quota THEN [storage |-> stored, ok |-> FALSE]
  ELSE [storage |-> Stringify(Append(filterOut(getAllInvoices(stored),
                                               invoiceData.invoiceNumber),
                                     ("savedAt" :> savedAt) @@ invoiceData)),
        ok |-> TRUE]

\* saveInvoice: the storage it leaves and the boolean it returns.  quota is
\* whether localStorage.setItem throws (quota exceeded, storage disabled).
saveInvoice(stored, invoiceData, savedAt, quota) ==
  LET invoices      == getAllInvoices(stored)
      invoiceToSave == ("savedAt" :> savedAt) @@ invoiceData
      existingIndex == findIndex(invoices, invoiceData.invoiceNumber)
      written       == IF existingIndex # 0
                       THEN [invoices EXCEPT ![existingIndex] = invoiceToSave]
                       ELSE Append(invoices, invoiceToSave)
  IN  IF quota THEN [storage |-> stored, ok |-> FALSE]
      ELSE [storage |-> Stringify(written), ok |-> TRUE]

getInvoice(stored, number) ==
  LET invoices == getAllInvoices(stored)
      k        == findIndex(invoices, number)
  IN  IF k = 0 THEN Null ELSE invoices[k]

deleteInvoice(stored, number, quota) ==
  LET invoices == getAllInvoices(stored)
      filtered == filterOut(invoices, number)
  IN  IF quota THEN [storage |-> stored, ok |-> FALSE]
      ELSE [storage |-> Stringify(filtered), ok |-> TRUE]

\* A merge in which an imported entry replaces the stored entry of its number.
RECURSIVE mergeInvoicesImportedWins(_, _)
mergeInvoicesImportedWins(merged, imported) ==
  IF Len(imported) = 0 THEN merged
  ELSE mergeInvoicesImportedWins(
         IF findIndex(merged, imported[1].invoiceNumber) = 0
         THEN Append(merged, imported[1])
         ELSE [merged EXCEPT ![findIndex(merged, imported[1].invoiceNumber)] = imported[1]],
         Tail(imported))

\* A merge that looks for an imported entry's number among the entries that
\* were stored only, not among those it has pushed.
mergeInvoicesAgainstStored(merged, imported) ==
  merged \o SelectSeq(imported, LAMBDA e : findIndex(merged, e.invoiceNumber) = 0)

\* The merge of importInvoices' onload: an imported entry is pushed unless an
\* entry of the merged array, as built so far, has its number.
RECURSIVE mergeInvoices(_, _)
mergeInvoices(merged, imported) ==
  IF Len(imported) = 0 THEN merged
  ELSE mergeInvoices(
         IF findIndex(merged, imported[1].invoiceNumber) = 0
         THEN Append(merged, imported[1]) ELSE merged,
         Tail(imported))

(***************************************************************************)
(* The in-memory invoice, js/state.js.  Each operation is given as the     *)
(* record it leaves.                                                       *)
(***************************************************************************)
EmptyParty == [name |-> "", phone |-> "", address |-> ""]

NoDate == <<>>

\* The `state` object as the script creates it on the day `today`.
InitialState(today) ==
  [business |-> EmptyParty, client |-> EmptyParty, items |-> <<>>,
   taxRate |-> 0, discount |-> 0, subtotal |-> 0, total |-> 0,
   invoiceNumber |-> InvNumber(<<0, 0, 1>>), issueDate |-> today,
   dueDate |-> NoDate, nextItemId |-> 1]

updateBusiness(s, businessData) == [s EXCEPT !.business = businessData @@ s.business]

updateClient(s, clientData) == [s EXCEPT !.client = clientData @@ s.client]

\* The item addItem creates.
NewItem(s, item) ==
  LET quantity == OrElse(ParseField(item, "quantity"), 1)
      price    == OrElse(ParseField(item, "price"), 0)
  IN  [id |-> s.nextItemId,
       description |-> IF "description" \in DOMAIN item THEN item.description ELSE "",
       quantity |-> quantity, price |-> price, total |-> quantity * price]

\* addItem reading the counter without advancing it.
addItemNoIncrement(s, item) == [s EXCEPT !.items = Append(s.items, NewItem(s, item))]

addItem(s, item) ==
  [s EXCEPT !.nextItemId = s.nextItemId + 1,
            !.items = Append(s.items, NewItem(s, item))]

\* state.items.find(i => i.id === itemId): its index, 0 when there is none.
findItem(items, itemId) ==
  LET hits == {i \in 1..Len(items) : items[i].id = itemId}
  IN  IF hits = {} THEN 0 ELSE CHOOSE i \in hits : \A j \in hits : i <= j

\* updateItem without its closing recomputation of the item's total.
UpdatedItemStale(item, updates) ==
  [id |-> item.id,
   description |-> IF "description" \in DOMAIN updates
                   THEN updates.description ELSE item.description,
   quantity |-> IF "quantity" \in DOMAIN updates
                THEN OrElse(ParseFloat(updates.quantity), 0) ELSE item.quantity,
   price |-> IF "price" \in DOMAIN updates
             THEN OrElse(ParseFloat(updates.price), 0) ELSE item.price,
   total |-> item.total]

UpdatedItem(item, updates) ==
  LET d == IF "description" \in DOMAIN updates THEN updates.description ELSE item.description
      q == IF "quantity" \in DOMAIN updates
           THEN OrElse(ParseFloat(updates.quantity), 0) ELSE item.quantity
      p == IF "price" \in DOMAIN updates
           THEN OrElse(ParseFloat(updates.price), 0) ELSE item.price
  IN  [id |-> item.id, description |-> d, quantity |-> q, price |-> p, total |-> q * p]

updateItem(s, itemId, updates) ==
  LET k == findItem(s.items, itemId)
  IN  IF k = 0 THEN s
      ELSE [s EXCEPT !.items[k] = UpdatedItem(s.items[k], updates)]

RECURSIVE filterItems(_, _)
filterItems(items, itemId) ==
  IF Len(items) = 0 THEN <<>>
  ELSE IF items[1].id = itemId THEN filterItems(Tail(items), itemId)
  ELSE <<items[1]>> \o filterItems(Tail(items), itemId)

removeItem(s, itemId) == [s EXCEPT !.items = filterItems(s.items, itemId)]

updateTaxRate(s, rate) == [s EXCEPT !.taxRate = OrElse(ParseFloat(rate), 0)]

updateDiscount(s, amount) == [s EXCEPT !.discount = OrElse(ParseFloat(amount), 0)]

\* A variant that stores the subtotal and leaves the old total.
updateTotalsSubtotalOnly(s, totals) == [s EXCEPT !.subtotal = totals.subtotal]

updateTotals(s, totals) == [s EXCEPT !.subtotal = totals.subtotal, !.total = totals.total]

\* The suffix each stored invoice contributes: its digits, or 0 without a match.
InvoiceSuffixes(invoices) ==
  [i \in 1..Len(invoices) |->
     IF MatchesINV(invoices[i].invoiceNumber)
     THEN parseInt(invoices[i].invoiceNumber.digits) ELSE 0]

PadWidth == 3

\* A variant that numbers by the count of stored invoices.
generateInvoiceNumberByCount(stored) ==
  InvNumber(padStart(ToDigits(Len(getAllInvoices(stored)) + 1), PadWidth))

generateInvoiceNumber(stored) ==
  LET existingInvoices == getAllInvoices(stored)
  IN  IF Len(existingInvoices) > 0
      THEN LET maxNumber  == MathMax(InvoiceSuffixes(existingInvoices))
               nextNumber == maxNumber + 1
           IN  InvNumber(padStart(ToDigits(nextNumber), PadWidth))
      ELSE InvNumber(<<0, 0, 1>>)

\* resetState without the reset of the item-ID counter.
resetStateKeepsCounter(s, stored, today) ==
  [business |-> EmptyParty, client |-> EmptyParty, items |-> <<>>,
   taxRate |-> 0, discount |-> 0, subtotal |-> 0, total |-> 0,
   invoiceNumber |-> generateInvoiceNumber(stored), issueDate |-> today,
   dueDate |-> NoDate, nextItemId |-> s.nextItemId]

resetState(s, stored, today) ==
  [business |-> EmptyParty, client |-> EmptyParty, items |-> <<>>,
   taxRate |-> 0, discount |-> 0, subtotal |-> 0, total |-> 0,
   invoiceNumber |-> generateInvoiceNumber(stored), issueDate |-> today,
   dueDate |-> NoDate, nextItemId |-> 1]

\* A variant whose fallback is the empty value, never dflt.
FieldOrFalsy(invoiceData, field, falsy, dflt) ==
  IF field \in DOMAIN invoiceData THEN invoiceData[field] ELSE falsy

\* `invoiceData[field] || dflt`: a field that is absent or falsy gives dflt.
FieldOr(invoiceData, field, falsy, dflt) ==
  IF field \in DOMAIN invoiceData /\ invoiceData[field] # falsy
  THEN invoiceData[field] ELSE dflt

ItemIds(items) == [i \in 1..Len(items) |-> items[i].id]

\* The counter loadState leaves: restored only when the loaded list has items.
\* loadState without the restoration of the counter.
LoadedNextItemIdKept(s, items) == s.nextItemId

\* A counter restored from the number of the loaded items.
LoadedNextItemIdFromLength(s, items) ==
  IF Len(items) > 0 THEN Len(items) + 1 ELSE s.nextItemId

LoadedNextItemId(s, items) ==
  IF Len(items) > 0 THEN MathMax(ItemIds(items)) + 1 ELSE s.nextItemId

\* loadState without the line that assigns state.client.
loadStateWithoutClient(s, invoiceData) ==
  LET items == IF "items" \in DOMAIN invoiceData THEN invoiceData.items ELSE <<>>
  IN  [business |-> IF "business" \in DOMAIN invoiceData
                    THEN invoiceData.business ELSE s.business,
       client |-> s.client,
       items |-> items,
       taxRate |-> FieldOr(invoiceData, "taxRate", 0, 0),
       discount |-> FieldOr(invoiceData, "discount", 0, 0),
       subtotal |-> FieldOr(invoiceData, "subtotal", 0, 0),
       total |-> FieldOr(invoiceData, "total", 0, 0),
       invoiceNumber |-> IF "invoiceNumber" \in DOMAIN invoiceData
                         THEN invoiceData.invoiceNumber ELSE s.invoiceNumber,
       issueDate |-> FieldOr(invoiceData, "issueDate", NoDate, s.issueDate),
       dueDate |-> FieldOr(invoiceData, "dueDate", NoDate, s.dueDate),
       nextItemId |-> LoadedNextItemId(s, items)]

loadState(s, invoiceData) ==
  LET items == IF "items" \in DOMAIN invoiceData THEN invoiceData.items ELSE <<>>
  IN  [business |-> IF "business" \in DOMAIN invoiceData
                    THEN invoiceData.business ELSE s.business,
       client |-> IF "client" \in DOMAIN invoiceData
                  THEN invoiceData.client ELSE s.client,
       items |-> items,
       taxRate |-> FieldOr(invoiceData, "taxRate", 0, 0),
       discount |-> FieldOr(invoiceData, "discount", 0, 0),
       subtotal |-> FieldOr(invoiceData, "subtotal", 0, 0),
       total |-> FieldOr(invoiceData, "total", 0, 0),
       invoiceNumber |-> IF "invoiceNumber" \in DOMAIN invoiceData
                         THEN invoiceData.invoiceNumber ELSE s.invoiceNumber,
       issueDate |-> FieldOr(invoiceData, "issueDate", NoDate, s.issueDate),
       dueDate |-> FieldOr(invoiceData, "dueDate", NoDate, s.dueDate),
       nextItemId |-> LoadedNextItemId(s, items)]

(***************************************************************************)
(* Inputs.                                                                 *)
(***************************************************************************)
\* The days on which the program runs (new Date()).
Dates == {<<2026, 1, 10>>, <<2026, 1, 25>>}

\* The instants saveInvoice stamps (new Date().toISOString()).
Instants == {"2026-01-10T09:00:00.000Z", "2026-01-25T17:30:00.000Z"}

\* The item every handler passes to addItem: {description: '', quantity: 1, price: 0}.
BlankItem == [description |-> "", quantity |-> "1", price |-> "0"]

\* The objects a caller passes to addItem; <<>> is the object with no field.
ItemInputs ==
  { BlankItem,
    <<>>,
    [description |-> "Widget", quantity |-> "2", price |-> "2"],
    [quantity |-> "0", price |-> "2"],
    [description |-> "Widget", quantity |-> "abc", price |-> "-2"] }

\* The patches a caller passes to updateItem.
UpdateInputs ==
  { [description |-> "Widget"],
    [quantity |-> "2"], [quantity |-> "abc"], [quantity |-> "-1"],
    [price |-> "-2"],
    [quantity |-> "0", price |-> "2"] }

\* The texts typed into the tax rate and the discount fields.
RateInputs == {"", "50", "100", "-50"}

DiscountInputs == {"abc", "1", "3", "1000", "-1"}

(***************************************************************************)
(* The operations of js/state.js and js/calculations.js, called directly.  *)
(***************************************************************************)
StoreUnchanged == UNCHANGED <<storage, pending, pc, everSaved, fresh>>

AddItem ==
  /\ Len(state.items) < MaxItems
  /\ state.nextItemId <= MaxItemId
  /\ \E item \in ItemInputs :
       /\ state' = addItem(state, item)
       /\ last' = [op |-> "addItem", item |-> item, returned |-> NewItem(state, item),
                   after |-> last.op]
  /\ StoreUnchanged

UpdateItem ==
  /\ \E itemId \in 1..MaxItemId, updates \in UpdateInputs :
       /\ state' = updateItem(state, itemId, updates)
       /\ last' = [op |-> "updateItem", itemId |-> itemId, updates |-> updates]
  /\ StoreUnchanged

RemoveItem ==
  /\ \E itemId \in 1..MaxItemId :
       /\ state' = removeItem(state, itemId)
       /\ last' = [op |-> "removeItem", itemId |-> itemId]
  /\ StoreUnchanged

\* replaced notes what the invoice held when resetState was called.
ResetState ==
  /\ \E today \in Dates :
       /\ state' = resetState(state, storage, today)
       /\ last' = [op |-> "resetState", today |-> today,
                   replaced |-> [items |-> Len(state.items),
                                 nextItemId |-> state.nextItemId,
                                 taxRate |-> state.taxRate,
                                 businessName |-> state.business.name]]
  /\ StoreUnchanged

RecalculateAll ==
  /\ state' = [state EXCEPT !.items = RecalculatedItems(state.items)]
  /\ last' = [op |-> "recalculateAll", totals |-> recalculateAll(state)]
  /\ StoreUnchanged

InitMemory ==
  /\ \E today \in Dates : state = InitialState(today)
  /\ storage = Absent
  /\ pending = <<>>
  /\ pc = "ready"
  /\ last = [op |-> "init"]
  /\ everSaved = {}
  /\ fresh = FALSE

NextItems == AddItem \/ UpdateItem \/ RemoveItem \/ ResetState \/ RecalculateAll

\* The item operations of the in-memory invoice, in any order.
SpecItems == InitMemory /\ [][NextItems]_vars

(***************************************************************************)
(* loadState called directly, with records of any shape.                   *)
(***************************************************************************)
LoadedItem(id) ==
  [id |-> id, description |-> "Widget", quantity |-> 2, price |-> 2, total |-> 4]

\* Item lists of a record to load: IDs in any order, below the explored counter.
LoadItemLists ==
  LET ids == 1..(MaxItemId - 1)
  IN  {<<LoadedItem(a)>> : a \in ids}
      \cup {<<LoadedItem(p[1]), LoadedItem(p[2])>> : p \in {q \in ids \X ids : q[1] # q[2]}}

\* A complete record, as saveInvoice writes it.
StoredRecord(items) ==
  [business |-> [name |-> "Acme", phone |-> "", address |-> ""],
   client |-> [name |-> "Bob", phone |-> "", address |-> ""],
   items |-> items, taxRate |-> 50, discount |-> 1,
   subtotal |-> calculateSubtotal(items),
   total |-> calculateTotal(calculateSubtotal(items), 50, 1).total,
   invoiceNumber |-> InvNumber(<<0, 0, 7>>), issueDate |-> <<2026, 1, 10>>,
   dueDate |-> <<2026, 1, 24>>, nextItemId |-> 1,
   savedAt |-> "2026-01-10T09:00:00.000Z"]

LoadInputs ==
  {StoredRecord(items) : items \in LoadItemLists \cup {<<>>}}
  \cup {[items |-> items] : items \in LoadItemLists}
  \cup {[invoiceNumber |-> InvNumber(<<0, 0, 7>>)]}

LoadState ==
  /\ \E invoiceData \in LoadInputs :
       /\ state' = loadState(state, invoiceData)
       /\ last' = [op |-> "loadState", invoiceData |-> invoiceData,
                   counterBefore |-> state.nextItemId, before |-> state]
  /\ StoreUnchanged

NextLoad == AddItem \/ RemoveItem \/ ResetState \/ LoadState

\* The item operations together with loadState.
SpecLoad == InitMemory /\ [][NextLoad]_vars

(***************************************************************************)
(* The operations of js/storage.js, called directly.                       *)
(***************************************************************************)
\* The invoice numbers of the invoices a caller saves or asks for.
StoreNumbers ==
  { InvNumber(<<0, 0, 1>>), InvNumber(<<0, 0, 7>>),
    InvNumber(<<9, 9, 9>>), InvNumber(<<0, 0, 1, 2>>),
    [prefix |-> "DOC-", digits |-> <<5>>] }

\* An invoice as the program holds it in `state`, ready to be saved.
InvoiceOf(number, businessName) ==
  [business |-> [name |-> businessName, phone |-> "", address |-> ""],
   client |-> [name |-> "Bob", phone |-> "", address |-> ""],
   items |-> <<LoadedItem(1)>>, taxRate |-> 50, discount |-> 1,
   subtotal |-> 4, total |-> 5,
   invoiceNumber |-> number, issueDate |-> <<2026, 1, 10>>,
   dueDate |-> <<2026, 1, 24>>, nextItemId |-> 2]

InvoiceInputs == {InvoiceOf(n, b) : n \in StoreNumbers, b \in {"Acme", "Bolt"}}

MemoryUnchanged == UNCHANGED <<state, pending, pc, everSaved, fresh>>

SaveInvoice ==
  /\ \E invoiceData \in InvoiceInputs, savedAt \in Instants, quota \in BOOLEAN :
       LET r == saveInvoice(storage, invoiceData, savedAt, quota)
       IN  /\ Len(getAllInvoices(r.storage)) <= MaxStored
           /\ storage' = r.storage
           /\ last' = [op |-> "saveInvoice", invoiceData |-> invoiceData,
                       savedAt |-> IF r.ok THEN savedAt ELSE "", returned |-> r.ok,
                       lengthBefore |-> Len(getAllInvoices(storage))]
  /\ MemoryUnchanged

GetInvoice ==
  /\ \E number \in StoreNumbers :
       last' = [op |-> "getInvoice", number |-> number,
                returned |-> getInvoice(storage, number)]
  /\ UNCHANGED storage
  /\ MemoryUnchanged

\* setItem can throw on a delete only when the storage is unavailable, and
\* then getItem throws too and the collection reads as empty.
DeleteInvoice ==
  /\ \E number \in StoreNumbers, quota \in BOOLEAN :
       LET r == deleteInvoice(storage, number, quota)
       IN  /\ quota => Len(getAllInvoices(storage)) = 0
           /\ storage' = r.storage
           /\ last' = [op |-> "deleteInvoice", number |-> number, returned |-> r.ok,
                       lengthBefore |-> Len(getAllInvoices(storage))]
  /\ MemoryUnchanged

GenerateInvoiceNumber ==
  /\ last' = [op |-> "generateInvoiceNumber", returned |-> generateInvoiceNumber(storage)]
  /\ UNCHANGED storage
  /\ MemoryUnchanged

\* The key is absent, holds an empty array, or holds text that does not parse.
InitStore ==
  /\ \E today \in Dates : state = InitialState(today)
  /\ storage \in {Absent, Corrupt, Stringify(<<>>)}
  /\ pending = <<>>
  /\ pc = "ready"
  /\ last = [op |-> "init"]
  /\ everSaved = {}
  /\ fresh = FALSE

NextStore == SaveInvoice \/ GetInvoice \/ DeleteInvoice \/ GenerateInvoiceNumber

\* The persistence operations, in any order.
SpecStore == InitStore /\ [][NextStore]_vars

(***************************************************************************)
(* importInvoices, js/storage.js: the call creates the promise and starts  *)
(* the FileReader; reader.onload or reader.onerror settles it later.       *)
(***************************************************************************)
\* What JSON.parse makes of the text of a file.
JsonSyntaxError == [kind |-> "syntax"]

JsonObject == [kind |-> "object"]

JsonArray(v) == [kind |-> "array", v |-> v]

Unreadable == [readable |-> FALSE]

FileOf(text) == [readable |-> TRUE, text |-> text]

Resolved(stored) == [storage |-> stored, settled |-> "resolved", error |-> ""]

Rejected(stored, error) == [storage |-> stored, settled |-> "rejected", error |-> error]

\* A variant that resolves although the write to the storage failed.
importOnloadSwallowsQuota(stored, text, quota) ==
  IF text.kind = "syntax" THEN Rejected(stored, "SyntaxError")
  ELSE IF text.kind # "array" THEN Rejected(stored, "Invalid file format")
  ELSE IF \E i \in 1..Len(text.v) : text.v[i] = Null
  THEN Rejected(stored, "TypeError")
  ELSE IF quota THEN Resolved(stored)
  ELSE Resolved(Stringify(mergeInvoices(getAllInvoices(stored), text.v)))

\* A variant without the Array.isArray test: a non-array has nothing to merge.
importOnloadNoFormatCheck(stored, text, quota) ==
  IF text.kind = "syntax" THEN Rejected(stored, "SyntaxError")
  ELSE IF text.kind # "array"
  THEN (IF quota THEN Rejected(stored, "QuotaExceededError")
        ELSE Resolved(Stringify(getAllInvoices(stored))))
  ELSE IF \E i \in 1..Len(text.v) : text.v[i] = Null
  THEN Rejected(stored, "TypeError")
  ELSE IF quota THEN Rejected(stored, "QuotaExceededError")
  ELSE Resolved(Stringify(mergeInvoices(getAllInvoices(stored), text.v)))

\* A variant that writes the file's invoices without reading the collection.
importOnloadOverwrites(stored, text, quota) ==
  IF text.kind = "syntax" THEN Rejected(stored, "SyntaxError")
  ELSE IF text.kind # "array" THEN Rejected(stored, "Invalid file format")
  ELSE IF \E i \in 1..Len(text.v) : text.v[i] = Null
  THEN Rejected(stored, "TypeError")
  ELSE IF quota THEN Rejected(stored, "QuotaExceededError")
  ELSE Resolved(Stringify(mergeInvoices(<<>>, text.v)))

\* The body of reader.onload: how the promise settles and what the storage
\* holds afterwards.  A null entry makes `imported.invoiceNumber` throw before
\* anything is written; quota makes setItem throw.
importOnload(stored, text, quota) ==
  IF text.kind = "syntax" THEN Rejected(stored, "SyntaxError")
  ELSE IF text.kind # "array" THEN Rejected(stored, "Invalid file format")
  ELSE IF \E i \in 1..Len(text.v) : text.v[i] = Null
  THEN Rejected(stored, "TypeError")
  ELSE IF quota THEN Rejected(stored, "QuotaExceededError")
  ELSE Resolved(Stringify(mergeInvoices(getAllInvoices(stored), text.v)))

\* getStorageStats, as far as it reads the storage.
getStorageStats(stored) == [totalInvoices |-> Len(getAllInvoices(stored))]

\* An entry of a backup file.
ImportedInvoice(number, businessName) ==
  ("savedAt" :> "2025-12-31T08:00:00.000Z") @@ InvoiceOf(number, businessName)

\* The files a caller hands to importInvoices.
ImportFiles ==
  { Unreadable,
    FileOf(JsonSyntaxError),
    FileOf(JsonObject),
    FileOf(JsonArray(<<>>)),
    FileOf(JsonArray(<<ImportedInvoice(InvNumber(<<0, 0, 1>>), "Imported")>>)),
    FileOf(JsonArray(<<ImportedInvoice(InvNumber(<<0, 0, 7>>), "Imported"),
                       ImportedInvoice(InvNumber(<<0, 0, 1>>), "Imported")>>)),
    FileOf(JsonArray(<<ImportedInvoice(InvNumber(<<0, 0, 7>>), "Imported"),
                       ImportedInvoice(InvNumber(<<0, 0, 7>>), "Copy")>>)),
    FileOf(JsonArray(<<ImportedInvoice(InvNumber(<<0, 0, 7>>), "Imported"), Null>>)) }

\* The sequence without its i-th element.
RemoveAt(seq, i) == SubSeq(seq, 1, i - 1) \o SubSeq(seq, i + 1, Len(seq))

ImportInvoices ==
  /\ Len(pending) < MaxPending
  /\ \E file \in ImportFiles :
       /\ pending' = Append(pending, file)
       /\ last' = [op |-> "importInvoices", file |-> file]
  /\ UNCHANGED <<state, storage, pc, everSaved, fresh>>

\* after notes the operation that completed just before the callback fired, and
\* afterWrote whether it was a save or a delete that wrote the collection.
ReaderOnload ==
  /\ \E i \in 1..Len(pending), quota \in BOOLEAN :
       /\ pending[i].readable
       /\ LET r == importOnload(storage, pending[i].text, quota)
          IN  /\ Len(getAllInvoices(r.storage)) <= MaxStored
              /\ storage' = r.storage
              /\ last' = [op |-> "reader.onload", file |-> pending[i],
                          settled |-> r.settled, error |-> r.error, quota |-> quota,
                          after |-> last.op,
                          afterWrote |-> /\ last.op \in {"saveInvoice", "deleteInvoice"}
                                         /\ last.returned]
       /\ pending' = RemoveAt(pending, i)
  /\ UNCHANGED <<state, pc, everSaved, fresh>>

ReaderOnerror ==
  /\ \E i \in 1..Len(pending) :
       /\ ~pending[i].readable
       /\ last' = [op |-> "reader.onerror", file |-> pending[i],
                   settled |-> "rejected", error |-> "Failed to read file",
                   quota |-> FALSE]
       /\ pending' = RemoveAt(pending, i)
  /\ UNCHANGED <<state, storage, pc, everSaved, fresh>>

GetStorageStats ==
  /\ last' = [op |-> "getStorageStats", returned |-> getStorageStats(storage)]
  /\ UNCHANGED <<state, storage, pending, pc, everSaved, fresh>>

NextImport ==
  \/ SaveInvoice
  \/ DeleteInvoice
  \/ GetInvoice
  \/ GetStorageStats
  \/ ImportInvoices
  \/ ReaderOnload
  \/ ReaderOnerror

\* Imports among the other persistence operations.
SpecImport == InitStore /\ [][NextImport]_vars

(***************************************************************************)
(* calculateTotal called directly on numbers.                              *)
(***************************************************************************)
CalcSubtotals == {0, 10, 100, 200, 1000}

CalcRates == {0, 10, 50, 100}

CalcDiscounts == {-5, 0, 5, 105, 1000, 5000}

CalculateTotal ==
  /\ \E subtotal \in CalcSubtotals, taxRate \in CalcRates, discount \in CalcDiscounts :
       last' = [op |-> "calculateTotal", subtotal |-> subtotal, taxRate |-> taxRate,
                discount |-> discount,
                returned |-> calculateTotal(subtotal, taxRate, discount)]
  /\ UNCHANGED <<state, storage, pending, pc, everSaved, fresh>>

NextCalc == CalculateTotal

\* The calculator's grand total on every combination of the inputs above.
SpecCalc == InitMemory /\ [][NextCalc]_vars

(***************************************************************************)
(* The event handlers of js/ui.js and js/main.js.  Each action is one      *)
(* handler run to completion.                                              *)
(***************************************************************************)
MaxRows == 2         \* rows the user adds to the items table of one invoice
MaxSaved == 1        \* invoices the user saves while editing freely
MaxMinted == 3       \* highest suffix generateInvoiceNumber is asked for

\* What the user types into the fields of the form.
BusinessNames == {"Acme"}

ClientNames == {"Bob"}

ItemEdits == {<<"quantity", "2">>, <<"price", "2">>}

TaxRateTexts == {"", "50"}

DiscountTexts == {"", "3"}

\* The day and the instant of the session.
SessionDates == {<<2026, 1, 25>>}

SessionInstants == {"2026-01-25T17:30:00.000Z"}

\* recalculateAll(state) followed by updateTotals(totals).
Recalculated(s) ==
  updateTotals([s EXCEPT !.items = RecalculatedItems(s.items)], recalculateAll(s))

\* The invoice both "new invoice" paths set up after resetState: a number, the
\* dates and one blank item.
FreshInvoice(s, stored, today) ==
  LET r == resetState(s, stored, today)
      n == [r EXCEPT !.invoiceNumber = generateInvoiceNumber(stored),
                     !.issueDate = today,
                     !.dueDate = AddDays(today, DueDays)]
  IN  addItem(n, BlankItem)

\* The next number stays within the numbers the model follows.
WithinNumbers(stored) == parseInt(generateInvoiceNumber(stored).digits) <= MaxMinted

\* The script has been loaded and DOMContentLoaded has not run yet.
Init ==
  /\ \E today \in SessionDates : state = InitialState(today)
  /\ storage = Absent
  /\ pending = <<>>
  /\ pc = "boot"
  /\ last = [op |-> "init"]
  /\ everSaved = {}
  /\ fresh = FALSE

DOMContentLoaded ==
  /\ pc = "boot"
  /\ \E today \in SessionDates :
       LET numbered == IF state.invoiceNumber = InvNumber(<<0, 0, 1>>)
                       THEN [state EXCEPT !.invoiceNumber = generateInvoiceNumber(storage)]
                       ELSE state
           dated    == [numbered EXCEPT !.issueDate = today,
                                        !.dueDate = AddDays(today, DueDays)]
           started  == IF Len(dated.items) = 0 THEN addItem(dated, BlankItem) ELSE dated
       IN  state' = Recalculated(started)
  /\ pc' = "ready"
  /\ last' = [op |-> "DOMContentLoaded"]
  /\ UNCHANGED <<storage, pending, everSaved, fresh>>

HandleBusinessInput ==
  /\ pc = "ready"
  /\ \E value \in BusinessNames : state' = updateBusiness(state, [name |-> value])
  /\ last' = [op |-> "handleBusinessInput"]
  /\ UNCHANGED <<storage, pending, pc, everSaved, fresh>>

HandleClientInput ==
  /\ pc = "ready"
  /\ \E value \in ClientNames : state' = updateClient(state, [name |-> value])
  /\ last' = [op |-> "handleClientInput"]
  /\ UNCHANGED <<storage, pending, pc, everSaved, fresh>>

HandleFinancialInput ==
  /\ pc = "ready"
  /\ \/ \E value \in TaxRateTexts : state' = Recalculated(updateTaxRate(state, value))
     \/ \E value \in DiscountTexts : state' = Recalculated(updateDiscount(state, value))
  /\ last' = [op |-> "handleFinancialInput"]
  /\ UNCHANGED <<storage, pending, pc, everSaved, fresh>>

HandleAddItem ==
  /\ pc = "ready"
  /\ Len(state.items) < MaxRows
  /\ state.nextItemId <= MaxRows
  /\ state' = Recalculated(addItem(state, BlankItem))
  /\ last' = [op |-> "handleAddItem"]
  /\ UNCHANGED <<storage, pending, pc, everSaved, fresh>>

\* The rows on screen are the items of the state: renderItems follows every
\* change of the list.
HandleRemoveItem ==
  /\ pc = "ready"
  /\ \E i \in 1..Len(state.items) :
       state' = Recalculated(removeItem(state, state.items[i].id))
  /\ last' = [op |-> "handleRemoveItem"]
  /\ UNCHANGED <<storage, pending, pc, everSaved, fresh>>

HandleItemChange ==
  /\ pc = "ready"
  /\ \E i \in 1..Len(state.items), edit \in ItemEdits :
       state' = Recalculated(updateItem(state, state.items[i].id, edit[1] :> edit[2]))
  /\ last' = [op |-> "handleItemChange"]
  /\ UNCHANGED <<storage, pending, pc, everSaved, fresh>>

\* The validation without its test of the item list.
SaveRejectionWithoutItems(s) ==
  IF s.business.name = "" THEN "Please enter business name"
  ELSE IF s.client.name = "" THEN "Please enter client name"
  ELSE ""

\* Which alert handleSaveInvoice's validation raises, "" when it passes.
SaveRejection(s) ==
  IF s.business.name = "" THEN "Please enter business name"
  ELSE IF s.client.name = "" THEN "Please enter client name"
  ELSE IF Len(s.items) = 0 THEN "Please add at least one item"
  ELSE ""

\* createNew is the user's answer to the confirm that follows a successful save;
\* limit bounds the stored collection.
SaveHandler(limit) ==
  /\ pc = "ready"
  /\ \E savedAt \in SessionInstants, quota \in BOOLEAN, createNew \in BOOLEAN,
        today \in SessionDates :
       LET r == saveInvoice(storage, state, savedAt, quota)
           called(outcome) ==
             [op |-> "handleSaveInvoice", outcome |-> outcome, threw |-> quota,
              readFailed |-> storage.kind = "corrupt"]
       IN  IF SaveRejection(state) # ""
           THEN /\ last' = [op |-> "handleSaveInvoice", outcome |-> "rejected"]
                /\ UNCHANGED <<state, storage, everSaved, fresh>>
           ELSE IF ~r.ok
           THEN /\ last' = called("failed")
                /\ storage' = r.storage
                /\ UNCHANGED <<state, everSaved, fresh>>
           ELSE /\ Len(getAllInvoices(r.storage)) <= limit
                /\ storage' = r.storage
                /\ everSaved' = everSaved \cup {state.invoiceNumber}
                /\ fresh' = createNew
                /\ IF createNew
                   THEN /\ WithinNumbers(r.storage)
                        /\ state' = FreshInvoice(state, r.storage, today)
                        /\ last' = called("new")
                   ELSE /\ state' = state
                        /\ last' = called("saved")
  /\ UNCHANGED <<pending, pc>>

HandleSaveInvoice == SaveHandler(MaxStored)

HandleSaveInvoiceOnce == SaveHandler(MaxSaved)

\* Ctrl/Cmd + N, confirmed.
CreateNewInvoice ==
  /\ pc = "ready"
  /\ WithinNumbers(storage)
  /\ \E today \in SessionDates : state' = FreshInvoice(state, storage, today)
  /\ last' = [op |-> "createNewInvoice"]
  /\ fresh' = TRUE
  /\ UNCHANGED <<storage, pending, pc, everSaved>>

\* The fields of an invoice.
InvoiceFields ==
  {"business", "client", "items", "taxRate", "discount", "subtotal", "total",
   "invoiceNumber", "issueDate", "dueDate"}

\* The Load button of an invoice listed in the history modal; differed notes the
\* fields in which the form differed from the invoice it loads.
HistoryLoad ==
  /\ pc = "ready"
  /\ \E i \in 1..Len(getAllInvoices(storage)) :
       LET invoiceId == getAllInvoices(storage)[i].invoiceNumber
           invoice   == getInvoice(storage, invoiceId)
       IN  /\ state' = IF invoice # Null THEN loadState(state, invoice) ELSE state
           /\ last' = [op |-> "historyLoad", invoiceId |-> invoiceId,
                       differed |-> {f \in InvoiceFields : state[f] # invoice[f]}]
           /\ fresh' = (fresh /\ invoice = Null)
  /\ UNCHANGED <<storage, pending, pc, everSaved>>

\* The Delete button of an invoice listed in the history modal, confirmed.
HistoryDelete ==
  /\ pc = "ready"
  /\ \E i \in 1..Len(getAllInvoices(storage)) :
       LET invoiceId == getAllInvoices(storage)[i].invoiceNumber
       IN  /\ storage' = deleteInvoice(storage, invoiceId, FALSE).storage
           /\ last' = [op |-> "historyDelete", invoiceId |-> invoiceId]
  /\ UNCHANGED <<state, pending, pc, everSaved, fresh>>

NextTotals ==
  \/ DOMContentLoaded
  \/ HandleBusinessInput
  \/ HandleClientInput
  \/ HandleFinancialInput
  \/ HandleAddItem
  \/ HandleRemoveItem
  \/ HandleItemChange
  \/ HandleSaveInvoiceOnce
  \/ CreateNewInvoice
  \/ HistoryLoad

\* Editing, saving and loading back: the handlers that touch the money fields.
SpecTotals == Init /\ [][NextTotals]_vars

NextNumbering ==
  \/ DOMContentLoaded
  \/ HandleBusinessInput
  \/ HandleClientInput
  \/ HandleSaveInvoice
  \/ CreateNewInvoice
  \/ HistoryLoad
  \/ HistoryDelete

\* New invoice, save, load and delete: the handlers that mint and store numbers.
SpecNumbering == Init /\ [][NextNumbering]_vars

NextReset ==
  \/ DOMContentLoaded
  \/ HandleBusinessInput
  \/ HandleClientInput
  \/ HandleFinancialInput
  \/ HandleSaveInvoice
  \/ CreateNewInvoice
  \/ HistoryDelete
  \/ ResetState

\* resetState called on the invoices and over the storages the handlers leave.
SpecReset == Init /\ [][NextReset]_vars

\* The page is opened over a storage that is absent, empty or unparseable.
InitSave ==
  /\ \E today \in SessionDates : state = InitialState(today)
  /\ storage \in {Absent, Corrupt, Stringify(<<>>)}
  /\ pending = <<>>
  /\ pc = "boot"
  /\ last = [op |-> "init"]
  /\ everSaved = {}
  /\ fresh = FALSE

\* The same handlers over any storage the page can find.
SpecSave == InitSave /\ [][NextNumbering]_vars

(***************************************************************************)
(* The in-memory operations called on an invoice that has been saved.      *)
(***************************************************************************)
MaxCaptured == 1     \* items of the invoice while a saved copy of it is followed

\* The remaining operations of js/state.js, called directly.
UpdateBusiness ==
  /\ \E businessData \in {[name |-> "Acme"], [phone |-> "555"]} :
       /\ state' = updateBusiness(state, businessData)
       /\ last' = [op |-> "updateBusiness", businessData |-> businessData]
  /\ StoreUnchanged

UpdateClient ==
  /\ \E clientData \in {[name |-> "Bob"]} :
       /\ state' = updateClient(state, clientData)
       /\ last' = [op |-> "updateClient", clientData |-> clientData]
  /\ StoreUnchanged

UpdateTaxRate ==
  /\ \E rate \in RateInputs :
       /\ state' = updateTaxRate(state, rate)
       /\ last' = [op |-> "updateTaxRate", rate |-> rate]
  /\ StoreUnchanged

UpdateDiscount ==
  /\ \E amount \in DiscountInputs :
       /\ state' = updateDiscount(state, amount)
       /\ last' = [op |-> "updateDiscount", amount |-> amount]
  /\ StoreUnchanged

\* updateTotals with the totals recalculateAll has just computed.
UpdateTotals ==
  /\ state' = updateTotals(state, recalculateAll(state))
  /\ last' = [op |-> "updateTotals"]
  /\ StoreUnchanged

\* saveInvoice(state), as handleSaveInvoice calls it once its validation has
\* passed.
SaveState ==
  /\ SaveRejection(state) = ""
  /\ \E savedAt \in SessionInstants, quota \in BOOLEAN :
       LET r == saveInvoice(storage, state, savedAt, quota)
       IN  /\ Len(getAllInvoices(r.storage)) <= MaxSaved
           /\ storage' = r.storage
           /\ last' = [op |-> "saveState", returned |-> r.ok]
  /\ UNCHANGED <<state, pending, pc, everSaved, fresh>>

\* The inputs followed while a saved copy exists: one item, the blank one or
\* the one of a loaded record, its quantity set to 2, two tax rates, two
\* discounts, the business name, and one day for resetState.
CaptureInputs ==
  /\ Len(state.items) <= MaxCaptured
  /\ state.nextItemId <= MaxCaptured + 1
  /\ state.taxRate \in {0, 50}
  /\ state.discount \in {0, 1}
  /\ last.op = "addItem" => last.item = BlankItem
  /\ last.op = "updateItem" => last.itemId = 1 /\ last.updates = [quantity |-> "2"]
  /\ last.op = "removeItem" => last.itemId = 1
  /\ last.op = "resetState" => last.today = <<2026, 1, 10>>
  /\ last.op = "loadState" => last.invoiceData = [items |-> <<LoadedItem(1)>>]
  /\ last.op = "updateBusiness" => last.businessData = [name |-> "Acme"]

NextCapture ==
  \/ SaveState
  \/ AddItem /\ CaptureInputs'
  \/ UpdateItem /\ CaptureInputs'
  \/ RemoveItem /\ CaptureInputs'
  \/ UpdateBusiness /\ CaptureInputs'
  \/ UpdateClient /\ CaptureInputs'
  \/ UpdateTaxRate /\ CaptureInputs'
  \/ UpdateDiscount /\ CaptureInputs'
  \/ UpdateTotals /\ CaptureInputs'
  \/ ResetState /\ CaptureInputs'
  \/ LoadState /\ CaptureInputs'

\* A save of the invoice followed by the in-memory operations, in any order.
SpecCapture == InitMemory /\ [][NextCapture]_vars

MaxPriced == 1       \* items of the invoice while the amounts are varied

NextAmounts ==
  \/ Len(state.items) < MaxPriced /\ AddItem
  \/ UpdateItem
  \/ UpdateTaxRate
  \/ UpdateDiscount

\* The operations that take amounts from the caller, in any order.
SpecAmounts == InitMemory /\ [][NextAmounts]_vars

(***************************************************************************)
(* Leaving the page, js/main.js.                                           *)
(***************************************************************************)
\* hasData of the beforeunload handler.
hasData(s) ==
  \/ s.business.name # ""
  \/ s.client.name # ""
  \/ \E i \in 1..Len(s.items) : s.items[i].description # ""

\* Whether the beforeunload handler sets e.returnValue, which makes the browser
\* ask before it leaves the page.
beforeunloadWarns(s, stored) ==
  hasData(s) /\ getInvoice(stored, s.invoiceNumber) = Null

\* The user leaves the page (and stays when asked, or the session ends here).
BeforeUnload ==
  /\ pc = "ready"
  /\ last' = [op |-> "beforeunload", warned |-> beforeunloadWarns(state, storage)]
  /\ UNCHANGED <<state, storage, pending, pc, everSaved, fresh>>

NextUnload ==
  \/ DOMContentLoaded
  \/ HandleBusinessInput
  \/ HandleClientInput
  \/ HandleFinancialInput
  \/ HandleSaveInvoice
  \/ CreateNewInvoice
  \/ HistoryLoad
  \/ BeforeUnload

\* Editing, saving and leaving the page.
SpecUnload == Init /\ [][NextUnload]_vars

NextCreate ==
  \/ DOMContentLoaded
  \/ HandleBusinessInput
  \/ HandleClientInput
  \/ HandleSaveInvoice
  \/ CreateNewInvoice
  \/ HistoryLoad
  \/ HistoryDelete
  \/ ImportInvoices
  \/ ReaderOnload
  \/ ReaderOnerror

\* New invoice, edit, save, load and delete, with files imported in between.
SpecCreate == Init /\ [][NextCreate]_vars

(***************************************************************************)
(* The item operations on invoices that are saved and loaded back.         *)
(***************************************************************************)
MaxOrdered == 2      \* items of the invoice while saved invoices are loaded back

\* The inputs followed here: blank items, a quantity set to 2, the business
\* name, and one day for resetState.
OrderInputs ==
  /\ Len(state.items) <= MaxOrdered
  /\ last.op = "addItem" => last.item = BlankItem
  /\ last.op = "updateItem" => last.updates = [quantity |-> "2"]
  /\ last.op = "resetState" => last.today = <<2026, 1, 10>>
  /\ last.op = "updateBusiness" => last.businessData = [name |-> "Acme"]

NextOrder ==
  \/ AddItem /\ OrderInputs'
  \/ UpdateItem /\ OrderInputs'
  \/ RemoveItem
  \/ ResetState /\ OrderInputs'
  \/ UpdateBusiness /\ OrderInputs'
  \/ UpdateClient
  \/ SaveState
  \/ HistoryLoad

\* The item operations, the save and the load of a saved invoice, in any order.
SpecOrder == InitMemory /\ [][NextOrder]_vars

(***************************************************************************)
(* Properties.                                                             *)
(***************************************************************************)
\* The items before the last one.
Front(items) == SubSeq(items, 1, Len(items) - 1)

\* C2: in every state reached by addItem, updateItem, removeItem, resetState
\* and recalculateAll, every line item has total = quantity * price.
C2_ItemTotalsFresh ==
  \A i \in 1..Len(state.items) :
    state.items[i].total = state.items[i].quantity * state.items[i].price

\* updateItem has just changed the quantity of an item with a non-zero price.
C2_Witness ==
  /\ last.op = "updateItem"
  /\ "quantity" \in DOMAIN last.updates
  /\ \E i \in 1..Len(state.items) :
       /\ state.items[i].id = last.itemId
       /\ state.items[i].quantity = -1
       /\ state.items[i].price = 2
       /\ state.items[i].total = -2

\* C9 as stated: addItem on items with maximum ID m creates the item m + 1.
C9_AddAssignsMaxPlusOne ==
  (last.op = "addItem" /\ Len(state.items) > 1)
    => last.returned.id = MathMax(ItemIds(Front(state.items))) + 1

\* C9 amended: addItem assigns the value of the next-ID counter, which is
\* greater than the ID of every item already in the invoice (at least m + 1).
C9_AddAssignsCounter ==
  last.op = "addItem" =>
    /\ state.items[Len(state.items)] = last.returned
    /\ state.nextItemId = last.returned.id + 1
    /\ \A i \in 1..(Len(state.items) - 1) : state.items[i].id < last.returned.id

\* addItem after the item with the highest ID was removed: the new ID skips it.
C9_Witness ==
  /\ last.op = "addItem"
  /\ Len(state.items) > 1
  /\ last.returned.id > MathMax(ItemIds(Front(state.items))) + 1

\* C10: the addItem that follows a loadState of a record with items assigns
\* max(loaded item IDs) + 1, an ID no loaded item has.
C10_AddAfterLoad ==
  (last.op = "addItem" /\ last.after = "loadState" /\ Len(state.items) > 1) =>
    /\ last.returned.id = MathMax(ItemIds(Front(state.items))) + 1
    /\ \A i \in 1..(Len(state.items) - 1) : state.items[i].id # last.returned.id
    /\ state.items[Len(state.items)].id = last.returned.id

\* An item added after loading items whose IDs are not in increasing order.
C10_Witness ==
  /\ last.op = "addItem"
  /\ last.after = "loadState"
  /\ Len(state.items) = 3
  /\ state.items[1].id > state.items[2].id
  /\ last.returned.id = state.items[1].id + 1

\* The stored collection, as getAllInvoices reads it, in this state and the next.
Stored == getAllInvoices(storage)

StoredNext == getAllInvoices(storage')

\* The positions of the invoices numbered `number`.
Positions(invoices, number) ==
  {i \in 1..Len(invoices) : invoices[i].invoiceNumber = number}

SetMax(S) == CHOOSE m \in S : \A x \in S : x <= m

\* C4: after a successful saveInvoice(invoice), getInvoice(invoice.invoiceNumber)
\* returns the saved invoice's fields with only savedAt added.
C4_SaveThenGet ==
  (last.op = "saveInvoice" /\ last.returned) =>
    LET got == getInvoice(storage, last.invoiceData.invoiceNumber)
    IN  /\ got # Null
        /\ DOMAIN got = DOMAIN last.invoiceData \cup {"savedAt"}
        /\ \A f \in DOMAIN last.invoiceData : got[f] = last.invoiceData[f]
        /\ got.savedAt = last.savedAt

\* A successful save over an entry that is not the first of the collection.
C4_Witness ==
  /\ last.op = "saveInvoice"
  /\ last.returned
  /\ last.lengthBefore = 2
  /\ Len(Stored) = 2
  /\ Stored[2].invoiceNumber = last.invoiceData.invoiceNumber
  /\ Stored[1].invoiceNumber # last.invoiceData.invoiceNumber

\* C5: a successful save of a stored number replaces that entry in place (same
\* length, every other entry unchanged); of a new number, appends exactly one.
C5_SaveUpserts ==
  [][ (last'.op = "saveInvoice" /\ last'.returned) =>
        LET number == last'.invoiceData.invoiceNumber
            hits   == Positions(Stored, number)
        IN  IF hits # {}
            THEN /\ Len(StoredNext) = Len(Stored)
                 /\ \A i \in 1..Len(Stored) :
                      IF i \in hits THEN StoredNext[i].invoiceNumber = number
                      ELSE StoredNext[i] = Stored[i]
            ELSE /\ Len(StoredNext) = Len(Stored) + 1
                 /\ \A i \in 1..Len(Stored) : StoredNext[i] = Stored[i]
                 /\ StoredNext[Len(StoredNext)].invoiceNumber = number ]_vars

\* A successful save that replaced the first of two entries where it was.
C5_Witness ==
  /\ last.op = "saveInvoice"
  /\ last.returned
  /\ last.lengthBefore = 2
  /\ Len(Stored) = 2
  /\ Stored[1].invoiceNumber = last.invoiceData.invoiceNumber
  /\ Stored[1].savedAt = last.savedAt
  /\ Stored[2].savedAt # last.savedAt

C7_NextNumber ==
  last.op = "generateInvoiceNumber" =>
    LET suffixes == {parseInt(Stored[i].invoiceNumber.digits) :
                       i \in {j \in 1..Len(Stored) : MatchesINV(Stored[j].invoiceNumber)}}
        digits   == last.returned.digits
    IN  /\ last.returned.prefix = "INV-"
        /\ Len(digits) >= 3
        /\ Len(digits) > 3 => digits[1] # 0
        /\ parseInt(digits) = SetMax(suffixes \cup {0}) + 1
        /\ Len(Stored) = 0 => digits = <<0, 0, 1>>

\* The number minted when the greatest stored suffix is not the last one stored.
C7_Witness ==
  /\ last.op = "generateInvoiceNumber"
  /\ Len(Stored) = 2
  /\ Stored[1].invoiceNumber = InvNumber(<<0, 0, 7>>)
  /\ Stored[2].invoiceNumber = InvNumber(<<0, 0, 1>>)
  /\ last.returned = InvNumber(<<0, 0, 8>>)

\* C3: for subtotal >= 0, rate >= 0 and any discount, calculateTotal returns
\* tax = subtotal * rate / 100 and total = max(0, subtotal + tax - discount),
\* which is never negative.  Both equations are stated in hundredths.
C3_GrandTotal ==
  last.op = "calculateTotal" =>
    LET exact == 100 * last.subtotal + last.subtotal * last.taxRate - 100 * last.discount
    IN  /\ 100 * last.returned.tax = last.subtotal * last.taxRate
        /\ 100 * last.returned.total = (IF exact > 0 THEN exact ELSE 0)
        /\ last.returned.total >= 0

\* calculateTotal(10, 0, 1000): a discount larger than the amount due.
C3_Witness ==
  /\ last.op = "calculateTotal"
  /\ last.subtotal = 10
  /\ last.taxRate = 0
  /\ last.discount = 1000
  /\ last.returned.total = 0

RECURSIVE SumOfTotals(_)
SumOfTotals(items) ==
  IF Len(items) = 0 THEN 0 ELSE items[1].total + SumOfTotals(Tail(items))

\* C1: once a handler that edits the invoice has completed (add item, remove
\* item, item change, tax rate or discount change, new invoice), and once an
\* invoice saved by the save action has been loaded from the history, the
\* in-memory record has subtotal = sum of its items' totals and
\* total = max(0, subtotal + subtotal * taxRate / 100 - discount); the second
\* equation is stated in hundredths.
C1_TotalsConsistent ==
  pc = "ready" =>
    LET exact == 100 * state.subtotal + state.subtotal * state.taxRate
                   - 100 * state.discount
    IN  /\ state.subtotal = SumOfTotals(state.items)
        /\ 100 * state.total = (IF exact > 0 THEN exact ELSE 0)

\* An invoice of two priced items with a tax rate and a discount has been
\* loaded from the history.
C1_Witness ==
  /\ last.op = "historyLoad"
  /\ Len(state.items) = 2
  /\ state.items[1].total > 0
  /\ state.items[2].total > 0
  /\ state.taxRate > 0
  /\ state.discount > 0
  /\ state.total > 0
  /\ state.total # state.subtotal

\* A handler has just put a newly generated number on the form.
Minted ==
  \/ last.op = "createNewInvoice"
  \/ last.op = "handleSaveInvoice" /\ last.outcome = "new"

\* C8 as stated: over any sequence of new-invoice, save and delete operations
\* a number that was once saved is never generated again.
C8_NeverReused == Minted => state.invoiceNumber \notin everSaved

\* C8: a newly generated number carries a suffix above that of every invoice
\* in storage, so it is the number of no stored invoice; numbers of invoices
\* deleted since are not excluded.
C8_AboveEveryStored ==
  Minted =>
    \A i \in 1..Len(Stored) :
      /\ state.invoiceNumber # Stored[i].invoiceNumber
      /\ parseInt(state.invoiceNumber.digits) > InvoiceSuffixes(Stored)[i]

\* INV-002 was saved and deleted, INV-001 is still stored, and INV-002 has been
\* generated again.
C8_Witness ==
  /\ Minted
  /\ state.invoiceNumber \in everSaved
  /\ Len(Stored) = 1
  /\ Stored[1].invoiceNumber = InvNumber(<<0, 0, 1>>)
  /\ state.invoiceNumber = InvNumber(<<0, 0, 2>>)

\* C11 as stated: after loadState of a record whose items are absent or empty
\* the next-item-ID counter is 1, whatever it was before the load.
C11_CounterOneWithoutItems ==
  (last.op = "loadState" /\ Len(state.items) = 0) => state.nextItemId = 1

\* The fields loadState falls back on when the record lacks them.
KeptWhenAbsent == {"business", "client", "invoiceNumber", "issueDate", "dueDate"}

ZeroWhenAbsent == {"taxRate", "discount", "subtotal", "total"}

\* C12 as stated: every field but items that the loaded record lacks keeps the
\* value it had before loadState, and absent items become the empty sequence.
C12_AbsentFieldsKept ==
  last.op = "loadState" =>
    /\ \A f \in (KeptWhenAbsent \cup ZeroWhenAbsent) \ DOMAIN last.invoiceData :
         state[f] = last.before[f]
    /\ "items" \notin DOMAIN last.invoiceData => state.items = <<>>

\* C12: of the fields the loaded record lacks, business, client, invoiceNumber,
\* issueDate and dueDate keep the value they had before loadState; taxRate,
\* discount, subtotal and total become 0; items becomes the empty sequence.
C12_AbsentFieldsFallBack ==
  last.op = "loadState" =>
    /\ \A f \in KeptWhenAbsent \ DOMAIN last.invoiceData : state[f] = last.before[f]
    /\ \A f \in ZeroWhenAbsent \ DOMAIN last.invoiceData : state[f] = 0
    /\ "items" \notin DOMAIN last.invoiceData => state.items = <<>>

\* A record holding only a number has been loaded over a complete invoice with
\* items, a tax rate and a discount.
C12_Witness ==
  /\ last.op = "loadState"
  /\ DOMAIN last.invoiceData = {"invoiceNumber"}
  /\ last.before.business.name = "Acme"
  /\ last.before.taxRate = 50
  /\ last.before.total > 0
  /\ Len(last.before.items) = 2
  /\ state.business.name = "Acme"
  /\ state.dueDate = last.before.dueDate
  /\ state.dueDate # NoDate
  /\ state.taxRate = 0
  /\ state.items = <<>>

\* C13: once the Load button has loaded an invoice stored by the save action,
\* every field of the in-memory invoice equals that field of the stored record,
\* whatever the form held before.
C13_LoadReplacesAll ==
  last.op = "historyLoad" =>
    LET record == getInvoice(storage, last.invoiceId)
    IN  \A f \in InvoiceFields : state[f] = record[f]

\* The loaded invoice differed from the form in its parties, its items, every
\* money field and its number.
C13_Witness ==
  /\ last.op = "historyLoad"
  /\ {"business", "client", "items", "taxRate", "discount", "subtotal", "total",
      "invoiceNumber"} \subseteq last.differed
  /\ Len(state.items) = 2

\* A step in which reader.onload resolves the promise of importInvoices.
ImportResolves == last'.op = "reader.onload" /\ last'.settled = "resolved"

\* C14 as stated: a successful import leaves every stored entry in place and
\* unchanged, and appends after them every imported entry whose number was not
\* in the store.
C14_MergeAppendsEveryNew ==
  [][ImportResolves =>
       LET imported == last'.file.text.v
       IN  /\ Len(StoredNext) >= Len(Stored)
           /\ \A i \in 1..Len(Stored) : StoredNext[i] = Stored[i]
           /\ \A j \in 1..Len(imported) :
                Positions(Stored, imported[j].invoiceNumber) = {} =>
                  \E k \in (Len(Stored) + 1)..Len(StoredNext) : StoredNext[k] = imported[j]
     ]_vars

\* C14: a successful import leaves every stored entry in place and unchanged
\* and appends after them, in file order, the first imported entry of each
\* number that was not in the store; an imported entry whose number is in the
\* store, or is carried by an earlier entry of the file, is dropped.
C14_MergeAppendsFirstNew ==
  [][ImportResolves =>
       LET imported == last'.file.text.v
           new == {j \in 1..Len(imported) :
                     /\ Positions(Stored, imported[j].invoiceNumber) = {}
                     /\ \A h \in 1..(j - 1) :
                          imported[h].invoiceNumber # imported[j].invoiceNumber}
       IN  /\ Len(StoredNext) = Len(Stored) + Cardinality(new)
           /\ \A i \in 1..Len(Stored) : StoredNext[i] = Stored[i]
           /\ \A j \in new :
                StoredNext[Len(Stored) + Cardinality({h \in new : h <= j})] = imported[j]
     ]_vars

\* A file holding INV-007 and INV-001 has been imported over a store holding
\* INV-001: the stored INV-001 stays, INV-007 follows it.
C14_Witness ==
  /\ last.op = "reader.onload"
  /\ last.settled = "resolved"
  /\ Len(last.file.text.v) = 2
  /\ last.file.text.v[2].invoiceNumber = InvNumber(<<0, 0, 1>>)
  /\ Len(Stored) = 2
  /\ Stored[1].invoiceNumber = InvNumber(<<0, 0, 1>>)
  /\ Stored[1].business.name = "Acme"
  /\ Stored[2] = last.file.text.v[1]

\* C15: when the text of the file parses to a value that is not an array, the
\* promise of importInvoices is rejected with the format error and the storage
\* is left as it was.
C15_NonArrayRejected ==
  [][(last'.op = "reader.onload" /\ last'.file.text.kind = "object") =>
       /\ last'.settled = "rejected"
       /\ last'.error = "Invalid file format"
       /\ storage' = storage
     ]_vars

\* A file holding a JSON object has been rejected while two invoices are stored.
C15_Witness ==
  /\ last.op = "reader.onload"
  /\ last.file = FileOf(JsonObject)
  /\ last.settled = "rejected"
  /\ Len(Stored) = 2

SaveCalled == last'.op = "handleSaveInvoice" /\ last'.outcome # "rejected"

\* C16 as stated: when the read of the storage or the write to it fails during
\* the save, saveInvoice returns false, and the stored collection and the
\* in-memory invoice are left as they were.
C16_FailedSaveChangesNothing ==
  [][(SaveCalled /\ (last'.readFailed \/ last'.threw)) =>
       /\ last'.outcome = "failed"
       /\ storage' = storage
       /\ state' = state
     ]_vars

\* An invoice the save action must refuse.
Incomplete(s) == s.business.name = "" \/ s.client.name = "" \/ Len(s.items) = 0

\* C18: handleSaveInvoice on an invoice with an empty business name, an empty
\* client name or no item does not call saveInvoice and leaves the storage as
\* it was; every stored record has both names and at least one item.
C18_ValidationBlocksSave ==
  [][/\ (last'.op = "handleSaveInvoice" /\ Incomplete(state)) =>
          /\ last'.outcome = "rejected"
          /\ storage' = storage
     /\ \A i \in 1..Len(StoredNext) : ~Incomplete(StoredNext[i])
    ]_vars

\* The save of an invoice that has both names and no item has been refused
\* while an invoice is stored.
C18_Witness ==
  /\ last.op = "handleSaveInvoice"
  /\ last.outcome = "rejected"
  /\ state.business.name # ""
  /\ state.client.name # ""
  /\ Len(state.items) = 0
  /\ Len(Stored) = 1

\* What resetState leaves apart from the due date: empty parties, no item, zero
\* money fields, counter 1, today's issue date, and the number after the highest
\* stored one (INV-001 over an empty store).
FreshlyDefaulted ==
  /\ state.business = [name |-> "", phone |-> "", address |-> ""]
  /\ state.client = [name |-> "", phone |-> "", address |-> ""]
  /\ state.items = <<>>
  /\ state.taxRate = 0 /\ state.discount = 0
  /\ state.subtotal = 0 /\ state.total = 0
  /\ state.nextItemId = 1
  /\ state.issueDate = last.today
  /\ state.invoiceNumber.prefix = "INV-"
  /\ Len(state.invoiceNumber.digits) = 3
  /\ parseInt(state.invoiceNumber.digits) =
       (IF Len(Stored) = 0 THEN 1
        ELSE SetMax({InvoiceSuffixes(Stored)[i] : i \in 1..Len(Stored)}) + 1)

\* C19 as stated: after resetState the invoice is freshly defaulted and its due
\* date is 14 days after its issue date.
C19_ResetDefaultsWithDueDate ==
  last.op = "resetState" =>
    /\ FreshlyDefaulted
    /\ state.dueDate = AddDays(state.issueDate, 14)

\* C19: after resetState the invoice is freshly defaulted and its due date is
\* empty; the handlers that start a new invoice call resetState and then set
\* the due date 14 days after the issue date and add one blank item.
C19_ResetDefaults ==
  /\ last.op = "resetState" => (FreshlyDefaulted /\ state.dueDate = <<>>)
  /\ Minted =>
       /\ state.dueDate = AddDays(state.issueDate, 14)
       /\ Len(state.items) = 1
       /\ state.items[1].id = 1
       /\ state.nextItemId = 2
       /\ state.taxRate = 0 /\ state.total = 0
       /\ state.business.name = ""

\* resetState has replaced an invoice with a business name, a tax rate and an
\* item while an invoice is stored, and has minted the next number.
C19_Witness ==
  /\ last.op = "resetState"
  /\ last.replaced.businessName = "Acme"
  /\ last.replaced.taxRate = 50
  /\ last.replaced.items = 1
  /\ last.replaced.nextItemId = 2
  /\ Len(Stored) = 1
  /\ state.invoiceNumber = InvNumber(<<0, 0, 2>>)
  /\ state.dueDate = <<>>

\* C20 as stated: addItem keeps a numeric quantity >= 0 (0 included) and a
\* numeric price >= 0, uses quantity 1 and price 0 only for an absent or
\* non-numeric input, sets total = quantity * price, and appends the item after
\* the existing items, which it leaves unchanged.
C20_AddItemKeepsNumbers ==
  [][last'.op = "addItem" =>
       LET quantity == ParseField(last'.item, "quantity")
           price    == ParseField(last'.item, "price")
           created  == state'.items[Len(state'.items)]
       IN  /\ Len(state'.items) = Len(state.items) + 1
           /\ Front(state'.items) = state.items
           /\ created = last'.returned
           /\ quantity.nan => created.quantity = 1
           /\ (~quantity.nan /\ quantity.num >= 0) => created.quantity = quantity.num
           /\ price.nan => created.price = 0
           /\ (~price.nan /\ price.num >= 0) => created.price = price.num
           /\ created.total = created.quantity * created.price
     ]_vars

\* The numbers generateInvoiceNumber mints within the model's bound.
MintedNumbers == {InvNumber(padStart(ToDigits(k), PadWidth)) : k \in 1..MaxMinted}

\* C21: a save captures the invoice by value: no in-memory operation
\* (addItem, updateItem, removeItem, updateBusiness, updateClient,
\* updateTaxRate, updateDiscount, updateTotals, resetState, loadState) changes
\* the record getInvoice returns for any number; only a save does.
C21_SaveCapturesByValue ==
  [][last'.op # "saveState" =>
       \A n \in MintedNumbers : getInvoice(storage, n)' = getInvoice(storage, n)
     ]_vars

\* updateItem has changed the quantity of the item of an invoice whose saved
\* copy, stored under the same number, still holds the old quantity and the
\* tax rate of the time of the save.
C21_Witness ==
  /\ last.op = "updateItem"
  /\ getInvoice(storage, state.invoiceNumber) # Null
  /\ Len(state.items) = 1
  /\ state.items[1].quantity = 2
  /\ getInvoice(storage, state.invoiceNumber).items[1].quantity = 1
  /\ getInvoice(storage, state.invoiceNumber).taxRate # state.taxRate

\* C22: the call of importInvoices, and a read that fails, leave the in-memory
\* invoice and the stored collection as they are.  The callback leaves the
\* in-memory invoice as it is and merges into the collection the storage holds
\* when it fires: every entry of that collection stays in place, and every
\* entry added comes from the file and carries a number that collection did
\* not hold.  So a record saved just before the callback is stored after it,
\* and a number deleted just before the callback is stored after it only with
\* an entry of the file.
C22_ImportMergesAtCallback ==
  [][/\ last'.op \in {"importInvoices", "reader.onerror"} =>
          state' = state /\ storage' = storage
     /\ last'.op = "reader.onload" =>
          /\ state' = state
          /\ last'.settled = "rejected" => storage' = storage
          /\ last'.settled = "resolved" =>
               LET file == last'.file.text.v
               IN  /\ Len(StoredNext) >= Len(Stored)
                   /\ SubSeq(StoredNext, 1, Len(Stored)) = Stored
                   /\ \A k \in (Len(Stored) + 1)..Len(StoredNext) :
                        /\ Positions(Stored, StoredNext[k].invoiceNumber) = {}
                        /\ \E j \in 1..Len(file) : file[j] = StoredNext[k]
                   /\ (last.op = "saveInvoice" /\ last.returned) =>
                        getInvoice(storage', last.invoiceData.invoiceNumber)
                          = ("savedAt" :> last.savedAt) @@ last.invoiceData
                   /\ (last.op = "deleteInvoice" /\ last.returned) =>
                        \/ getInvoice(storage', last.number) = Null
                        \/ \E j \in 1..Len(file) :
                             file[j] = getInvoice(storage', last.number)
     ]_vars

\* A file holding INV-007 and INV-001 was handed to importInvoices, INV-001 was
\* then saved with the business name Bolt, and the callback has fired: the
\* saved INV-001 is stored, followed by the file's INV-007.
C22_Witness ==
  /\ last.op = "reader.onload"
  /\ last.settled = "resolved"
  /\ last.after = "saveInvoice"
  /\ last.afterWrote
  /\ Len(last.file.text.v) = 2
  /\ last.file.text.v[2].invoiceNumber = InvNumber(<<0, 0, 1>>)
  /\ Len(Stored) = 2
  /\ Stored[1].invoiceNumber = InvNumber(<<0, 0, 1>>)
  /\ Stored[1].business.name = "Bolt"
  /\ Stored[2] = last.file.text.v[1]

\* C23 as stated: after any sequence of addItem, updateItem, updateTaxRate and
\* updateDiscount, with numeric, non-numeric and negative inputs, the tax rate
\* and the discount are >= 0 and so are the quantity and the price of every
\* item.
C23_AmountsNonNegative ==
  /\ state.taxRate >= 0
  /\ state.discount >= 0
  /\ \A i \in 1..Len(state.items) :
       state.items[i].quantity >= 0 /\ state.items[i].price >= 0

\* C24 as stated: when the page is left while the in-memory invoice holds
\* entered data (a business name, a client name or an item description) and
\* differs from what is stored under its number (no record is stored, or a
\* field differs from the stored record), the beforeunload handler warns.
C24_UnsavedChangesWarn ==
  last.op = "beforeunload" =>
    LET saved == getInvoice(storage, state.invoiceNumber)
    IN  (/\ hasData(state)
         /\ \/ saved = Null
            \/ \E f \in InvoiceFields : saved[f] # state[f])
        => last.warned

\* C25: after any sequence of saveInvoice, deleteInvoice and importInvoices,
\* files that repeat a number included, no two stored invoices have the same
\* invoiceNumber.
C25_StoredNumbersDistinct ==
  \A i, j \in 1..Len(Stored) :
    i # j => Stored[i].invoiceNumber # Stored[j].invoiceNumber

\* A file holding INV-007 twice has been imported over a store holding
\* INV-001: one INV-007, the first of the file, has been added.
C25_Witness ==
  /\ last.op = "reader.onload"
  /\ last.settled = "resolved"
  /\ Len(last.file.text.v) = 2
  /\ last.file.text.v[1].invoiceNumber = last.file.text.v[2].invoiceNumber
  /\ Len(Stored) = 2
  /\ Stored[1].invoiceNumber = InvNumber(<<0, 0, 1>>)
  /\ Stored[2] = last.file.text.v[1]

\* C26 as stated: when an invoice set up by the new-invoice action is saved for
\* the first time, no record with its number is in the store at the moment of
\* the save, whatever new-invoice, edit, save, load, delete and import
\* operations came before.
C26_NewInvoiceSaveAppends ==
  [][(/\ fresh
      /\ last'.op = "handleSaveInvoice"
      /\ last'.outcome \in {"saved", "new"})
       => getInvoice(storage, state.invoiceNumber) = Null
     ]_vars

\* C27: after any sequence of addItem, updateItem, removeItem, resetState and
\* loadState of invoices the save action has stored, the item IDs of the
\* in-memory invoice increase strictly along the item sequence.
C27_ItemIdsIncrease ==
  \A i \in 1..(Len(state.items) - 1) : state.items[i].id < state.items[i + 1].id

\* An invoice saved with item 2 alone (item 1 removed) has been loaded from
\* the history, and addItem has then appended item 3.
C27_Witness ==
  /\ last.op = "addItem"
  /\ last.after = "historyLoad"
  /\ ItemIds(state.items) = <<2, 3>>
  /\ Len(Stored) = 1
  /\ ItemIds(Stored[1].items) = <<2>>
  /\ Stored[1].nextItemId = 3

====
